---- MODULE Spec2Model ----
(***************************************************************************)
(* State-machine model of the Clash Royale history collector:              *)
(*   analyzer.py          the writers of the SQLite store                  *)
(*   member_generator.py  the per-member deck history (read side)          *)
(*   html_generator.py    the clan deck analytics (read side)              *)
(* A table is the sequence of its rows in id order (AUTOINCREMENT ids, no  *)
(* row is ever deleted, so the id of a row is its index).  Timestamps are  *)
(* natural numbers: datetime.now().isoformat() strings compare, as text,   *)
(* in the order of the instants they denote.  Every writer call reads the  *)
(* wall clock once, later than every earlier call did.                     *)
(***************************************************************************)
EXTENDS Integers, Sequences, FiniteSets, TLC

VARIABLES
    clock,                  \* the latest reading of datetime.now()
    battles,                \* table battles
    clan_rankings_history,  \* table clan_rankings_history
    clan_member_decks,      \* table clan_member_decks
    calls,                  \* writer calls made so far, per writer
    observed,               \* per member: times of the first and last deck observation
    lastRefresh,            \* memberList and timestamp of the latest save_clan_rankings_history call
    history,                \* argument and result of the latest get_member_deck_history call
    lastLog,                \* battle log of the latest save_battles call
    clan_members,           \* rows of table clan_members, in rowid order
    daily,                  \* arguments and result of the latest get_daily_battle_stats call
    run,                    \* position and inputs of the update_player_data run
    lastObserved,           \* player record of the latest save_clan_member_deck_if_changed call
    report                  \* name and result of the latest query of the report generators

vars == <<clock, battles, clan_rankings_history, clan_member_decks,
          calls, observed, lastRefresh, history, lastLog, clan_members, daily, run,
          lastObserved, report>>

(***************************************************************************)
(* Bounds of the model.                                                    *)
(***************************************************************************)
\* deck observations (save_clan_member_deck_if_changed calls)
MaxObservations == 4
\* roster refreshes (save_clan_rankings_history calls), members in one roster
MaxRefresh == 2
MaxRoster == 2
\* calls of save_clan_rankings_history in a run that follows one member
MaxSnapshots == 3
\* rows of the battles table, and records in one battle log
MaxBattles == 2
MaxBatch == 2
\* rows of an arbitrary stored table
MaxRows == 3
\* days of the trailing window of the daily statistics
MaxWindow == 3
\* runs of update_player_data
MaxUpdates == 1

\* SQL NULL / Python None
NULL == "NULL"

Tags == {"P1", "P2"}
Names == {"n1", "n2"}
FavoriteCards == {"", "A"}

(***************************************************************************)
(* Cards.  A card of the API is a record with a name and a level; NameOrd  *)
(* is the lexicographic order of the card names used here.                 *)
(***************************************************************************)
NameOrd == [A |-> 1, B |-> 2, C |-> 3]

Card(n, l) == [name |-> n, level |-> l]

\* currentDeck values a player record may carry: a deck, the same deck in
\* another equip order with a levelled-up card, and a different deck
CardLists == { <<Card("A", 1), Card("B", 1)>>,
               <<Card("B", 2), Card("A", 1)>>,
               <<Card("A", 1), Card("C", 1)>> }

\* sorted(...) of a list of names: insertion into a sorted prefix
RECURSIVE InsertName(_, _)
InsertName(sorted, n) ==
    IF sorted = <<>> THEN <<n>>
    ELSE IF NameOrd[n] < NameOrd[Head(sorted)] THEN <<n>> \o sorted
    ELSE <<Head(sorted)>> \o InsertName(Tail(sorted), n)

RECURSIVE SortedNames(_)
SortedNames(names) ==
    IF names = <<>> THEN <<>>
    ELSE InsertName(SortedNames(SubSeq(names, 1, Len(names) - 1)), names[Len(names)])

\* ' | '.join(names)
RECURSIVE Join(_)
Join(names) ==
    IF names = <<>> THEN ""
    ELSE IF Len(names) = 1 THEN names[1]
    ELSE names[1] \o " | " \o Join(Tail(names))

\* a bug that joins the names in equip order
format_deck_unsorted(cards) == Join([i \in 1..Len(cards) |-> cards[i].name])

\* sorted([card['name'] for card in cards]) joined by ' | '
format_deck(cards) == Join(SortedNames([i \in 1..Len(cards) |-> cards[i].name]))

Fingerprints == { format_deck(c) : c \in CardLists }

(***************************************************************************)
(* Generic helpers on tables.                                              *)
(***************************************************************************)
\* indices (ids) of the rows of a member, ascending
RowsOf(table, tag) == { i \in 1..Len(table) : table[i].player_tag = tag }

Max(S) == CHOOSE x \in S : \A y \in S : y <= x
Min(S) == CHOOSE x \in S : \A y \in S : x <= y

\* the ids of a set, ascending, as a sequence
RECURSIVE Ascending(_)
Ascending(S) == IF S = {} THEN <<>> ELSE <<Min(S)>> \o Ascending(S \ {Min(S)})

RECURSIVE Reversed(_)
Reversed(s) == IF s = <<>> THEN <<>> ELSE Reversed(Tail(s)) \o <<Head(s)>>

(***************************************************************************)
(* save_clan_member_deck_if_changed                                        *)
(***************************************************************************)
\* arena names and trophy counts a player record may carry
Arenas == { "Arena1", "Arena2" }
Trophies == { 1, 2 }

\* the player records of the API: tag, name, currentDeck,
\* currentFavouriteCard.name, arena.name and trophies
PlayerRecords(tags, names, decks, favorites, arenas, trophies) ==
    [tag : tags, name : names, currentDeck : decks,
     currentFavouriteCard : favorites, arena : arenas, trophies : trophies]

PlayerData == PlayerRecords(Tags, Names, CardLists, FavoriteCards, {"Arena1"}, {1})

\* a bug that orders by id ascending
LastRecord_oldest(table, player_tag) ==
    IF RowsOf(table, player_tag) = {} THEN 0 ELSE Min(RowsOf(table, player_tag))

\* SELECT deck_cards, favorite_card ... WHERE player_tag = ? ORDER BY id DESC
\* LIMIT 1: the id of the member's latest row, 0 when there is none
LastRecord(table, player_tag) ==
    IF RowsOf(table, player_tag) = {} THEN 0 ELSE Max(RowsOf(table, player_tag))

\* a bug that records every observation
should_save_always(table, last_record, current_deck) == TRUE

should_save(table, last_record, current_deck) ==
    \/ last_record = 0
    \/ table[last_record].deck_cards # current_deck

\* a bug that leaves first_seen unset
DeckRow_unstamped(player_data, current_deck, current_time) ==
    [player_tag |-> player_data.tag,
     name |-> player_data.name,
     deck_cards |-> current_deck,
     favorite_card |-> player_data.currentFavouriteCard,
     arena_name |-> player_data.arena,
     trophies |-> player_data.trophies,
     first_seen |-> 0,
     last_seen |-> current_time]

DeckRow(player_data, current_deck, current_time) ==
    [player_tag |-> player_data.tag,
     name |-> player_data.name,
     deck_cards |-> current_deck,
     favorite_card |-> player_data.currentFavouriteCard,
     arena_name |-> player_data.arena,
     trophies |-> player_data.trophies,
     first_seen |-> current_time,
     last_seen |-> current_time]

\* a bug that refreshes the favourite card only
UpdateLatestDeck_keeps_last_seen(table, last_record, current_time, favorite_card) ==
    [table EXCEPT ![last_record].favorite_card = favorite_card]

\* UPDATE clan_member_decks SET last_seen = ?, favorite_card = ? WHERE id = latest
UpdateLatestDeck(table, last_record, current_time, favorite_card) ==
    [table EXCEPT ![last_record].last_seen = current_time,
                  ![last_record].favorite_card = favorite_card]

SaveClanMemberDeckIfChanged(player_data) ==
    /\ calls.decks < MaxObservations
    /\ calls' = [calls EXCEPT !.decks = @ + 1]
    /\ LET current_time == clock + 1
           current_deck == format_deck(player_data.currentDeck)
           last_record == LastRecord(clan_member_decks, player_data.tag)
       IN /\ clock' = current_time
          /\ IF should_save(clan_member_decks, last_record, current_deck)
             THEN clan_member_decks' =
                      Append(clan_member_decks,
                             DeckRow(player_data, current_deck, current_time))
             ELSE clan_member_decks' =
                      UpdateLatestDeck(clan_member_decks, last_record, current_time,
                                       player_data.currentFavouriteCard)
          /\ observed' =
                 [observed EXCEPT ![player_data.tag] =
                      [first |-> IF @.first = 0 THEN current_time ELSE @.first,
                       last |-> current_time]]
          /\ lastObserved' = player_data
    /\ UNCHANGED <<battles, clan_rankings_history, lastRefresh, history, lastLog,
                   clan_members, daily, report>>

(***************************************************************************)
(* get_member_deck_history                                                 *)
(***************************************************************************)
\* ORDER BY first_seen ASC over the member's rows; rows with equal
\* first_seen come out in id order (the scan order of SQLite's sorter)
RECURSIVE InsertByFirstSeen(_, _)
InsertByFirstSeen(sorted, row) ==
    IF sorted = <<>> THEN <<row>>
    ELSE IF row.first_seen < Head(sorted).first_seen THEN <<row>> \o sorted
    ELSE <<Head(sorted)>> \o InsertByFirstSeen(Tail(sorted), row)

RECURSIVE OrderByFirstSeen(_)
OrderByFirstSeen(rows) ==
    IF rows = <<>> THEN <<>>
    ELSE InsertByFirstSeen(OrderByFirstSeen(SubSeq(rows, 1, Len(rows) - 1)),
                           rows[Len(rows)])

\* SELECT ... FROM clan_member_decks WHERE player_tag = ? ORDER BY first_seen ASC
RawHistory(table, player_tag) ==
    LET ids == Ascending(RowsOf(table, player_tag))
    IN OrderByFirstSeen([k \in 1..Len(ids) |-> table[ids[k]]])

\* a bug that starts a period at the end of its first snapshot
Period_starts_at_end(record) ==
    [deck_cards |-> record.deck_cards,
     favorite_card |-> record.favorite_card,
     arena_name |-> record.arena_name,
     trophies |-> record.trophies,
     first_seen |-> record.last_seen,
     last_seen |-> record.last_seen]

Period(record) ==
    [deck_cards |-> record.deck_cards,
     favorite_card |-> record.favorite_card,
     arena_name |-> record.arena_name,
     trophies |-> record.trophies,
     first_seen |-> record.first_seen,
     last_seen |-> record.last_seen]

\* a bug that leaves a period's end at its first snapshot
ConsolidateStep_keeps_last_seen(st, record) ==
    IF st.current = <<>> \/ st.current[1].deck_cards # record.deck_cards
    THEN [done |-> st.done \o st.current, current |-> <<Period(record)>>]
    ELSE st

\* one iteration of the consolidation loop; st = [done, current], where
\* current = <<>> stands for current_deck is None
ConsolidateStep(st, record) ==
    IF st.current = <<>> \/ st.current[1].deck_cards # record.deck_cards
    THEN [done |-> st.done \o st.current, current |-> <<Period(record)>>]
    ELSE [done |-> st.done,
          current |-> <<[st.current[1] EXCEPT
                            !.last_seen = record.last_seen,
                            !.favorite_card = record.favorite_card,
                            !.arena_name = record.arena_name,
                            !.trophies = record.trophies]>>]

RECURSIVE ConsolidateLoop(_, _)
ConsolidateLoop(st, raw_history) ==
    IF raw_history = <<>> THEN st
    ELSE ConsolidateLoop(ConsolidateStep(st, Head(raw_history)), Tail(raw_history))

\* a bug that forgets the last deck
Consolidate_drops_last(raw_history) ==
    Reversed(ConsolidateLoop([done |-> <<>>, current |-> <<>>], raw_history).done)

\* the loop, "don't forget the last deck", and reversed(...)
Consolidate(raw_history) ==
    LET st == ConsolidateLoop([done |-> <<>>, current |-> <<>>], raw_history)
    IN Reversed(st.done \o st.current)

get_member_deck_history(table, player_tag) ==
    Consolidate(RawHistory(table, player_tag))

(***************************************************************************)
(* save_clan_rankings_history                                              *)
(***************************************************************************)
\* memberList entries: tag, name, trophies and donations of a member
Member == { [tag |-> "P1", name |-> "n1", trophies |-> 1, donations |-> 0],
            [tag |-> "P1", name |-> "n1", trophies |-> 2, donations |-> 1],
            [tag |-> "P2", name |-> "n2", trophies |-> 1, donations |-> 1],
            [tag |-> "P2", name |-> "n2", trophies |-> 2, donations |-> 0] }

RECURSIVE SeqsUpTo(_, _)
SeqsUpTo(S, n) ==
    IF n = 0 THEN { <<>> }
    ELSE SeqsUpTo(S, n - 1) \cup
         { Append(s, x) : s \in { t \in SeqsUpTo(S, n - 1) : Len(t) = n - 1 }, x \in S }

\* a bug that sorts ascending and reverses, which reverses the ties
RECURSIVE InsertByTrophies_unstable(_, _)
InsertByTrophies_unstable(sorted, member) ==
    IF sorted = <<>> THEN <<member>>
    ELSE IF member.trophies >= Head(sorted).trophies THEN <<member>> \o sorted
    ELSE <<Head(sorted)>> \o InsertByTrophies_unstable(Tail(sorted), member)

\* the place of one more member in a list sorted by trophies, descending:
\* behind every member with at least as many trophies (sorted() is stable,
\* with reverse=True too)
RECURSIVE InsertByTrophies(_, _)
InsertByTrophies(sorted, member) ==
    IF sorted = <<>> THEN <<member>>
    ELSE IF member.trophies > Head(sorted).trophies THEN <<member>> \o sorted
    ELSE <<Head(sorted)>> \o InsertByTrophies(Tail(sorted), member)

\* sorted(members, key=lambda x: x.get('trophies', 0), reverse=True)
RECURSIVE members_sorted(_)
members_sorted(members) ==
    IF members = <<>> THEN <<>>
    ELSE InsertByTrophies(members_sorted(SubSeq(members, 1, Len(members) - 1)),
                          members[Len(members)])

\* a bug that takes the latest row of the table, whoever it belongs to
previous_data_any_member(table, player_tag) ==
    IF table = <<>> THEN 0
    ELSE CHOOSE i \in 1..Len(table) :
             \A j \in 1..Len(table) :
                 \/ table[j].recorded_at < table[i].recorded_at
                 \/ (table[j].recorded_at = table[i].recorded_at /\ j <= i)

\* SELECT trophies, donations ... WHERE player_tag = ? ORDER BY recorded_at
\* DESC LIMIT 1: the id of that row, 0 for fetchone() returning None.
\* UNIQUE(player_tag, recorded_at) leaves no tie between a member's rows.
previous_data(table, player_tag) ==
    IF RowsOf(table, player_tag) = {} THEN 0
    ELSE CHOOSE i \in RowsOf(table, player_tag) :
             \A j \in RowsOf(table, player_tag) :
                 table[j].recorded_at <= table[i].recorded_at

\* a bug that subtracts from a baseline of 0 when there is no earlier row
Change_zero_baseline(table, previous, column, current) ==
    IF previous = 0 THEN current ELSE current - table[previous][column]

\* trophy_change / donation_change (the stored columns are never NULL, so
\* "previous or 0" is the previous value)
Change(table, previous, column, current) ==
    IF previous = 0 THEN 0 ELSE current - table[previous][column]

\* a bug that subtracts the current value from the previous one
RankingRow_reversed(table, member, rank, current_time) ==
    LET previous == previous_data(table, member.tag)
    IN [player_tag |-> member.tag,
        name |-> member.name,
        clan_rank |-> rank,
        trophies |-> member.trophies,
        donations |-> member.donations,
        trophy_change |-> 0 - Change(table, previous, "trophies", member.trophies),
        donation_change |-> 0 - Change(table, previous, "donations", member.donations),
        recorded_at |-> current_time]

RankingRow(table, member, rank, current_time) ==
    LET previous == previous_data(table, member.tag)
    IN [player_tag |-> member.tag,
        name |-> member.name,
        clan_rank |-> rank,
        trophies |-> member.trophies,
        donations |-> member.donations,
        trophy_change |-> Change(table, previous, "trophies", member.trophies),
        donation_change |-> Change(table, previous, "donations", member.donations),
        recorded_at |-> current_time]

\* a bug that drops the uniqueness constraint
RankingConflict_none(table, row) == FALSE

\* UNIQUE(player_tag, recorded_at)
RankingConflict(table, row) ==
    \E i \in 1..Len(table) :
        /\ table[i].player_tag = row.player_tag
        /\ table[i].recorded_at = row.recorded_at

\* INSERT OR IGNORE INTO clan_rankings_history
InsertOrIgnoreRanking(table, row) ==
    IF RankingConflict(table, row) THEN table ELSE Append(table, row)

\* a value sqlite3 cannot bind as a parameter (a JSON object where a string
\* is expected): cursor.execute raises sqlite3.Error
UNBINDABLE == "UNBINDABLE"

\* cursor.execute raises sqlite3.Error for this row
RankingExecuteFails(row) == row.name = UNBINDABLE

\* a bug that lets the error leave the loop: the rows written so far stay
\* and the members behind the failing one are not written
RECURSIVE RankingLoop_aborts(_, _, _, _)
RankingLoop_aborts(table, sorted, rank, current_time) ==
    IF rank > Len(sorted) THEN table
    ELSE IF RankingExecuteFails(RankingRow(table, sorted[rank], rank, current_time))
         THEN table
    ELSE RankingLoop_aborts(
             InsertOrIgnoreRanking(table,
                 RankingRow(table, sorted[rank], rank, current_time)),
             sorted, rank + 1, current_time)

\* for rank, member in enumerate(members_sorted, 1), from rank on, with
\* "except sqlite3.Error: continue"
RECURSIVE RankingLoop(_, _, _, _)
RankingLoop(table, sorted, rank, current_time) ==
    IF rank > Len(sorted) THEN table
    ELSE IF RankingExecuteFails(RankingRow(table, sorted[rank], rank, current_time))
         THEN RankingLoop(table, sorted, rank + 1, current_time)
    ELSE RankingLoop(
             InsertOrIgnoreRanking(table,
                 RankingRow(table, sorted[rank], rank, current_time)),
             sorted, rank + 1, current_time)

SaveClanRankingsHistory(memberList) ==
    /\ calls' = [calls EXCEPT !.rankings = @ + 1]
    /\ LET current_time == clock + 1
       IN /\ clock' = current_time
          /\ clan_rankings_history' =
                 RankingLoop(clan_rankings_history, members_sorted(memberList),
                             1, current_time)
          /\ lastRefresh' = [memberList |-> memberList, recorded_at |-> current_time]
    /\ UNCHANGED <<battles, clan_member_decks, observed, history, lastLog,
                   clan_members, daily, lastObserved, report>>

(***************************************************************************)
(* save_clan_members                                                       *)
(***************************************************************************)
\* a key the API record does not have: member['name'] raises KeyError
MISSING == "MISSING"

ClanMember(tag, name, role, trophies, donations) ==
    [tag |-> tag, name |-> name, role |-> role, trophies |-> trophies,
     donations |-> donations]

\* memberList entries of the clan record: two members, the first of them
\* with other values, and records without name, without role, without tag
MemberRecord ==
    { ClanMember("P1", "n1", "member", 2, 0),
      ClanMember("P1", "n1", "elder", 1, 1),
      ClanMember("P2", "n2", "member", 1, 1),
      ClanMember("P2", MISSING, "member", 2, 0),
      ClanMember("P2", "n2", MISSING, 2, 0),
      ClanMember(MISSING, "n2", "member", 2, 0) }

\* member['tag'], member['name'], member['role'] are all there
HasRequiredFields(member) ==
    /\ member.tag # MISSING
    /\ member.name # MISSING
    /\ member.role # MISSING

\* the loop reaches a member for which a subscript raises KeyError
save_clan_members_raises(memberList) ==
    \E i \in 1..Len(memberList) : ~HasRequiredFields(memberList[i])

ClanMemberRow(member, last_updated) ==
    [player_tag |-> member.tag, name |-> member.name, role |-> member.role,
     trophies |-> member.trophies, donations |-> member.donations,
     last_updated |-> last_updated]

\* INSERT OR REPLACE INTO clan_members: player_tag is the primary key, the
\* row with the same tag is deleted and the new row inserted
InsertOrReplaceMember(table, row) ==
    Append(SelectSeq(table, LAMBDA r : r.player_tag # row.player_tag), row)

\* for member in clan_data.get('memberList', [])
RECURSIVE MembersLoop(_, _, _)
MembersLoop(table, memberList, now) ==
    IF memberList = <<>> THEN table
    ELSE MembersLoop(InsertOrReplaceMember(table, ClanMemberRow(Head(memberList), now)),
                     Tail(memberList), now)

\* the KeyError is caught nowhere: the call ends before conn.commit() and
\* the rows of the members before the failing one are rolled back
SaveClanMembers(memberList) ==
    /\ calls.members < MaxRefresh
    /\ calls' = [calls EXCEPT !.members = @ + 1]
    /\ LET now == clock + 1
       IN /\ clock' = now
          /\ clan_members' = IF save_clan_members_raises(memberList)
                             THEN clan_members
                             ELSE MembersLoop(clan_members, memberList, now)
          /\ lastRefresh' = [memberList |-> memberList, recorded_at |-> now]
    /\ UNCHANGED <<battles, clan_rankings_history, clan_member_decks, observed,
                   history, lastLog, daily, lastObserved, report>>

(***************************************************************************)
(* save_battles                                                            *)
(***************************************************************************)
\* the player whose battle log is ingested (CR_PLAYER_TAG)
Tracked == "P1"

\* an integer column or field that may be missing: the empty tuple for
\* None/NULL, the one-element tuple of the value otherwise
Absent == <<>>
Present(value) == <<value>>

\* a bug that reads an absent field as 1
Get_one(field, default) == IF field = Absent THEN 1 ELSE field[1]

\* dict.get(key, default) of an integer field
Get(field, default) == IF field = Absent THEN default ELSE field[1]

\* battleTime strings of the API, YYYYMMDDTHHMMSS.000Z, as the pair of the
\* calendar day (days since an epoch) and the time of day
Time(day, tod) == <<day, tod>>

TeamEntry(tag, crowns, cards, trophyChange) ==
    [tag |-> tag, crowns |-> crowns, cards |-> cards, trophyChange |-> trophyChange]

OpponentEntry(tag, crowns) == [tag |-> tag, crowns |-> crowns]

Battle(battleTime, type, gameMode, team, opponent) ==
    [battleTime |-> battleTime, type |-> type, gameMode |-> gameMode,
     team |-> team, opponent |-> opponent]

DeckAB == <<Card("A", 1), Card("B", 1)>>
DeckBA == <<Card("B", 2), Card("A", 1)>>
DeckAC == <<Card("A", 1), Card("C", 1)>>

\* battle-log entries: a win; the same battle reported with other values, a
\* loss; a battle without type, opponent and trophyChange, the first deck in
\* another order; an entry without team list; an entry whose team is
\* another player's
BattleRecord ==
    { Battle(Time(10, "a"), "PvP", "Ladder",
             <<TeamEntry("P1", Present(1), DeckAB, Present(1))>>,
             <<OpponentEntry("O1", Present(0))>>),
      Battle(Time(10, "a"), "PvP", "Ladder",
             <<TeamEntry("P1", Present(0), DeckAC, Present(-1))>>,
             <<OpponentEntry("O2", Present(1))>>),
      Battle(Time(11, "a"), NULL, "Ladder",
             <<TeamEntry("P1", Present(0), DeckBA, Absent)>>, <<>>),
      Battle(Time(11, "b"), "PvP", "Ladder",
             <<>>, <<OpponentEntry("O1", Present(1))>>),
      Battle(Time(11, "b"), "PvP", "Ladder",
             <<TeamEntry("P2", Present(1), DeckAB, Present(1))>>,
             <<OpponentEntry("O1", Present(0))>>) }

\* for team in teams: if team.get('tag') == player_tag: the index of the
\* first such team, 0 for player_team staying None
player_team(battle, player_tag) ==
    LET hits == { i \in 1..Len(battle.team) : battle.team[i].tag = player_tag }
    IN IF hits = {} THEN 0 ELSE Min(hits)

\* a bug that stores another word for equal crowns
Result_tie(player_crowns, opponent_crowns) ==
    IF player_crowns > opponent_crowns THEN "victory"
    ELSE IF player_crowns < opponent_crowns THEN "defeat"
    ELSE "tie"

Result(player_crowns, opponent_crowns) ==
    IF player_crowns > opponent_crowns THEN "victory"
    ELSE IF player_crowns < opponent_crowns THEN "defeat"
    ELSE "draw"

BattleRow(battle, player_tag) ==
    LET team == battle.team[player_team(battle, player_tag)]
        player_crowns == Get(team.crowns, 0)
        opponent_crowns == IF battle.opponent = <<>> THEN 0
                           ELSE Get(battle.opponent[1].crowns, 0)
    IN [player_tag |-> player_tag,
        battle_time |-> battle.battleTime,
        battle_type |-> battle.type,
        game_mode |-> battle.gameMode,
        result |-> Result(player_crowns, opponent_crowns),
        crowns |-> player_crowns,
        deck_cards |-> format_deck(team.cards),
        opponent_tag |-> IF battle.opponent = <<>> THEN NULL ELSE battle.opponent[1].tag,
        trophy_change |-> team.trophyChange]

\* UNIQUE(player_tag, battle_time, battle_type, game_mode): SQLite holds
\* two NULLs to be distinct, so a row with a NULL in one of the columns
\* conflicts with no row
BattleConflict(table, row) ==
    \E i \in 1..Len(table) :
        /\ table[i].player_tag = row.player_tag
        /\ table[i].battle_time = row.battle_time
        /\ table[i].battle_type = row.battle_type /\ row.battle_type # NULL
        /\ table[i].game_mode = row.game_mode /\ row.game_mode # NULL

\* a bug that writes INSERT OR REPLACE: the stored row is deleted and the
\* new one inserted
InsertOrIgnoreBattle_replaces(table, row) ==
    Append(SelectSeq(table, LAMBDA r : ~BattleConflict(<<r>>, row)), row)

\* INSERT OR IGNORE INTO battles
InsertOrIgnoreBattle(table, row) ==
    IF BattleConflict(table, row) THEN table ELSE Append(table, row)

\* cursor.execute raises sqlite3.Error for this row
BattleExecuteFails(row) == row.battle_type = UNBINDABLE

\* a bug that leaves the loop at a record without the player's team
RECURSIVE BattleLoop_breaks(_, _, _)
BattleLoop_breaks(table, player_tag, log) ==
    IF log = <<>> THEN table
    ELSE IF player_team(Head(log), player_tag) = 0 THEN table
    ELSE IF BattleExecuteFails(BattleRow(Head(log), player_tag))
         THEN BattleLoop_breaks(table, player_tag, Tail(log))
    ELSE BattleLoop_breaks(InsertOrIgnoreBattle(table, BattleRow(Head(log), player_tag)),
                           player_tag, Tail(log))

\* for battle in battles: "if not player_team: continue", and "except
\* sqlite3.Error: continue"
RECURSIVE BattleLoop(_, _, _)
BattleLoop(table, player_tag, log) ==
    IF log = <<>> THEN table
    ELSE IF player_team(Head(log), player_tag) = 0
         THEN BattleLoop(table, player_tag, Tail(log))
    ELSE IF BattleExecuteFails(BattleRow(Head(log), player_tag))
         THEN BattleLoop(table, player_tag, Tail(log))
    ELSE BattleLoop(InsertOrIgnoreBattle(table, BattleRow(Head(log), player_tag)),
                    player_tag, Tail(log))

\* battle['battleTime'] of a record with the player's team raises KeyError,
\* which save_battles does not catch
save_battles_raises(player_tag, log) ==
    \E i \in 1..Len(log) :
        /\ player_team(log[i], player_tag) # 0
        /\ log[i].battleTime = Absent

\* a bug that commits after every record: the records before the failing one
\* stay stored
save_battles_commit_each(table, player_tag, log) ==
    IF save_battles_raises(player_tag, log)
    THEN LET failing == Min({ i \in 1..Len(log) :
                                 /\ player_team(log[i], player_tag) # 0
                                 /\ log[i].battleTime = Absent })
         IN BattleLoop(table, player_tag, SubSeq(log, 1, failing - 1))
    ELSE BattleLoop(table, player_tag, log)

\* the table the call leaves: conn.commit() comes after the loop, and a
\* connection dropped without commit rolls its transaction back
save_battles_commit(table, player_tag, log) ==
    IF save_battles_raises(player_tag, log)
    THEN table
    ELSE BattleLoop(table, player_tag, log)

SaveBattles(player_tag, log) ==
    LET stored == save_battles_commit(battles, player_tag, log)
    IN
    /\ Len(stored) <= MaxBattles
    /\ battles' = stored
    /\ lastLog' = log
    /\ UNCHANGED <<clock, clan_rankings_history, clan_member_decks, calls, observed,
                   lastRefresh, history, clan_members, daily, lastObserved, report>>

(***************************************************************************)
(* get_clan_deck_analytics: the deck-change leaderboard                    *)
(***************************************************************************)
\* WITH DeckChanges AS (... GROUP BY player_tag, name, deck_cards)
DeckChanges(table) ==
    { [player_tag |-> table[i].player_tag, name |-> table[i].name,
       deck_cards |-> table[i].deck_cards] : i \in 1..Len(table) }

\* SELECT player_tag, name, COUNT(*) as deck_changes FROM DeckChanges
\* GROUP BY player_tag, name
deck_experimenters(table) ==
    { [player_tag |-> g.player_tag, name |-> g.name,
       deck_changes |-> Cardinality({ d \in DeckChanges(table) :
                           d.player_tag = g.player_tag /\ d.name = g.name })] :
      g \in DeckChanges(table) }

(***************************************************************************)
(* The read of a member's deck history, as an operation.                   *)
(***************************************************************************)
GetMemberDeckHistory(player_tag) ==
    /\ history' = [player_tag |-> player_tag,
                   periods |-> get_member_deck_history(clan_member_decks, player_tag)]
    /\ history' # history
    /\ UNCHANGED <<clock, battles, clan_rankings_history, clan_member_decks,
                   calls, observed, lastRefresh, lastLog, clan_members, daily, run,
                   lastObserved, report>>

(***************************************************************************)
(* get_daily_battle_stats.  A calendar date is its day number, a positive  *)
(* integer; NullDate is the NULL that SQLite's DATE() gives for a modifier *)
(* it cannot parse.                                                        *)
(***************************************************************************)
NullDate == 0

\* DATE('now') at the moments the report is generated
Todays == { 10, 11 }

\* DATE('now', '-' || offset || ' days'): for a negative offset the
\* modifier reads '--1 days', which is no modifier, and the date is NULL
DateNow(today, offset) == IF offset >= 0 THEN today - offset ELSE NullDate

\* the recursive member of date_range: SELECT DATE(date, '+1 day') FROM
\* date_range WHERE date < DATE('now'); a NULL date compares to nothing
RECURSIVE DateRangeFrom(_, _)
DateRangeFrom(date, today) ==
    IF date # NullDate /\ date < today
    THEN <<date>> \o DateRangeFrom(date + 1, today)
    ELSE <<date>>

date_range(today, offset) == DateRangeFrom(DateNow(today, offset), today)

\* SUBSTR(battle_time, 1, 4) || '-' || SUBSTR(battle_time, 5, 2) || '-' ||
\* SUBSTR(battle_time, 7, 2): the day of the timestamp as stored
BattleDate(battle_time) == battle_time[1]

\* a bug that joins the battles of the day and of the days before it
JoinedBattles_cumulative(table, date) ==
    { i \in 1..Len(table) : /\ date # NullDate
                            /\ table[i].battle_time # NULL
                            /\ BattleDate(table[i].battle_time) <= date }

\* LEFT JOIN battles b ON <date of b.battle_time> = dr.date AND
\* b.battle_time IS NOT NULL: the ids of the rows joined to the date
JoinedBattles(table, date) ==
    { i \in 1..Len(table) : /\ date # NullDate
                            /\ table[i].battle_time # NULL
                            /\ BattleDate(table[i].battle_time) = date }

\* one group of GROUP BY dr.date
DailyRecord(table, date) ==
    LET joined == JoinedBattles(table, date)
        Count(result) == Cardinality({ i \in joined : table[i].result = result })
    IN [date |-> date,
        wins |-> Count("victory"),
        losses |-> Count("defeat"),
        draws |-> Count("draw"),
        total_battles |-> Cardinality(joined)]

\* the query with parameter (days_limit - 1,); ORDER BY dr.date ASC is the
\* order date_range produces
daily_stats(table, today, days_limit) ==
    LET dates == date_range(today, days_limit - 1)
    IN [i \in 1..Len(dates) |-> DailyRecord(table, dates[i])]

GetDailyBattleStats(today, days_limit) ==
    /\ daily' = [days_limit |-> days_limit, today |-> today,
                 daily_stats |-> daily_stats(battles, today, days_limit)]
    /\ daily' # daily
    /\ UNCHANGED <<clock, battles, clan_rankings_history, clan_member_decks, calls,
                   observed, lastRefresh, history, lastLog, clan_members, run,
                   lastObserved, report>>

(***************************************************************************)
(* The deck_performance view.  Of its columns the averages of trophy       *)
(* change and crowns are left out; win_rate is in hundredths of a percent. *)
(***************************************************************************)
\* the ids of one group of GROUP BY deck_cards
DeckGroup(table, deck_cards) ==
    { i \in 1..Len(table) : table[i].deck_cards = deck_cards }

\* a bug that leaves rows without trophy change out of the sum by taking
\* the change of the row before
Coalesce_previous(table, i) ==
    IF table[i].trophy_change # Absent THEN table[i].trophy_change[1]
    ELSE IF i > 1 /\ table[i - 1].trophy_change # Absent
         THEN table[i - 1].trophy_change[1]
    ELSE 0

\* COALESCE(trophy_change, 0) of row i
Coalesce(table, i) ==
    IF table[i].trophy_change = Absent THEN 0 ELSE table[i].trophy_change[1]

\* SUM(COALESCE(trophy_change, 0)) over the rows of a group
RECURSIVE SumTrophyChange(_, _)
SumTrophyChange(table, ids) ==
    IF ids = {} THEN 0
    ELSE LET i == Max(ids)
         IN Coalesce(table, i) + SumTrophyChange(table, ids \ {i})

\* ROUND(AVG(CASE WHEN result = 'victory' THEN 1.0 ELSE 0.0 END) * 100, 2),
\* in hundredths: the quotient rounded half up
WinRate(wins, total_battles) ==
    (2 * 10000 * wins + total_battles) \div (2 * total_battles)

\* SELECT ... FROM battles WHERE deck_cards IS NOT NULL GROUP BY deck_cards
deck_performance(table) ==
    { LET group == DeckGroup(table, deck_cards)
          wins == Cardinality({ i \in group : table[i].result = "victory" })
      IN [deck_cards |-> deck_cards,
          total_battles |-> Cardinality(group),
          wins |-> wins,
          losses |-> Cardinality({ i \in group : table[i].result = "defeat" }),
          win_rate |-> WinRate(wins, Cardinality(group)),
          total_trophy_change |-> SumTrophyChange(table, group)] :
      deck_cards \in { table[i].deck_cards : i \in 1..Len(table) } \ {NULL} }

(***************************************************************************)
(* update_player_data, one call after the other.  run.at is the call the   *)
(* run is about to make; "crashed" is the run ended by an exception that   *)
(* nothing catches.                                                        *)
(***************************************************************************)
\* get_player_info and get_clan_info: the player has a clan with a member
\* list, or has none (or a request failed) and the run goes on to the
\* battle log
UpdateStart ==
    /\ run.at \in { "idle", "done", "crashed" }
    /\ calls.updates < MaxUpdates
    /\ calls' = [calls EXCEPT !.updates = @ + 1]
    /\ \/ \E memberList \in SeqsUpTo(MemberRecord, MaxRoster) :
              run' = [at |-> "members", members |-> memberList, i |-> 0]
       \/ run' = [at |-> "battles", members |-> <<>>, i |-> 0]
    /\ UNCHANGED <<clock, battles, clan_rankings_history, clan_member_decks, observed,
                   lastRefresh, history, lastLog, clan_members, daily, lastObserved, report>>

\* self.save_clan_members(clan_info)
UpdateMembers ==
    /\ run.at = "members"
    /\ SaveClanMembers(run.members)
    /\ run' = [run EXCEPT !.at = IF save_clan_members_raises(run.members)
                                 THEN "crashed" ELSE "rankings"]

\* self.save_clan_rankings_history(clan_info)
UpdateRankings ==
    /\ run.at = "rankings"
    /\ calls.rankings < MaxRefresh
    /\ SaveClanRankingsHistory(run.members)
    /\ run' = [run EXCEPT !.at = "details", !.i = 1]

\* fetch_clan_member_details: one member of the loop; get_player_info gives
\* the member's player record or None
UpdateDetails ==
    /\ run.at = "details"
    /\ IF run.i > Len(run.members)
       THEN /\ run' = [run EXCEPT !.at = "battles"]
            /\ UNCHANGED <<clock, battles, clan_rankings_history, clan_member_decks,
                           calls, observed, lastRefresh, history, lastLog,
                           clan_members, daily, lastObserved, report>>
       ELSE /\ run' = [run EXCEPT !.i = @ + 1]
            /\ \/ \E player_data \in PlayerData :
                      /\ player_data.tag = run.members[run.i].tag
                      /\ player_data.name = run.members[run.i].name
                      /\ SaveClanMemberDeckIfChanged(player_data)
               \/ UNCHANGED <<clock, battles, clan_rankings_history, clan_member_decks,
                              calls, observed, lastRefresh, history, lastLog,
                              clan_members, daily, lastObserved, report>>

\* get_battle_log and "if battles: self.save_battles(player_tag, battles)"
UpdateBattles ==
    /\ run.at = "battles"
    /\ run' = [run EXCEPT !.at = "done"]
    /\ \/ \E n \in 1..MaxBatch :
              \E log \in [1..n -> BattleRecord] : SaveBattles(Tracked, log)
       \/ UNCHANGED <<clock, battles, clan_rankings_history, clan_member_decks,
                      calls, observed, lastRefresh, history, lastLog,
                      clan_members, daily, lastObserved, report>>

(***************************************************************************)
(* get_clan_deck_analytics: the favorite-card tally.  Of the ten groups    *)
(* that LIMIT lets through the cards of the model fill fewer; users is the *)
(* set of the names that GROUP_CONCAT joins.                               *)
(***************************************************************************)
\* a bug that takes every snapshot with a favorite card
LatestWithFavorite_every_row(table) ==
    { i \in 1..Len(table) : table[i].favorite_card # "" }

\* WHERE favorite_card != '' AND cmd1.id = (SELECT MAX(cmd2.id) FROM
\* clan_member_decks cmd2 WHERE cmd2.player_tag = cmd1.player_tag)
LatestWithFavorite(table) ==
    { i \in 1..Len(table) : /\ table[i].favorite_card # ""
                            /\ i = Max(RowsOf(table, table[i].player_tag)) }

\* SELECT DISTINCT player_tag, favorite_card, name FROM ... WHERE ...
FavoriteOfMember(table) ==
    { [player_tag |-> table[i].player_tag, favorite_card |-> table[i].favorite_card,
       name |-> table[i].name] : i \in LatestWithFavorite(table) }

\* SELECT favorite_card, COUNT(*) as usage_count, GROUP_CONCAT(name, ', ')
\* as users ... GROUP BY favorite_card
favorite_cards(table) ==
    { LET group == { f \in FavoriteOfMember(table) : f.favorite_card = card }
      IN [card_name |-> card,
          usage_count |-> Cardinality(group),
          users |-> { f.name : f \in group }] :
      card \in { f.favorite_card : f \in FavoriteOfMember(table) } }

(***************************************************************************)
(* The other queries of the report generators.  Each opens a connection,   *)
(* runs SELECT statements and closes it; report holds what it returns.     *)
(* Results whose order the pages do not depend on are sets.                *)
(***************************************************************************)
\* SELECT COUNT(*), SUM(CASE WHEN result = ... THEN 1 ELSE 0 END), ...,
\* SUM(COALESCE(trophy_change, 0)) FROM battles
battle_stats(table) ==
    [total_battles |-> Len(table),
     wins |-> Cardinality({ i \in 1..Len(table) : table[i].result = "victory" }),
     losses |-> Cardinality({ i \in 1..Len(table) : table[i].result = "defeat" }),
     draws |-> Cardinality({ i \in 1..Len(table) : table[i].result = "draw" }),
     total_trophy_change |-> SumTrophyChange(table, 1..Len(table))]

\* the players table is not part of the model: get_player_stats finds a
\* player row or none
GetPlayerStats ==
    /\ \E player_row \in BOOLEAN :
           report' = [op |-> "get_player_stats",
                      result |-> IF player_row THEN <<battle_stats(battles)>> ELSE <<>>]
    /\ UNCHANGED <<clock, battles, clan_rankings_history, clan_member_decks, calls,
                   observed, lastRefresh, history, lastLog, clan_members, daily, run,
                   lastObserved>>

\* SELECT * FROM deck_performance WHERE total_battles >= 3 ... LIMIT ?
\* (the decks of the model are fewer than the limit)
GetDeckPerformance ==
    /\ report' = [op |-> "get_deck_performance",
                  result |-> { g \in deck_performance(battles) : g.total_battles >= 3 }]
    /\ UNCHANGED <<clock, battles, clan_rankings_history, clan_member_decks, calls,
                   observed, lastRefresh, history, lastLog, clan_members, daily, run,
                   lastObserved>>

\* WHERE crh.recorded_at = (SELECT MAX(recorded_at) FROM
\* clan_rankings_history WHERE player_tag = crh.player_tag)
LatestRankings(table) ==
    { i \in 1..Len(table) :
          \A j \in RowsOf(table, table[i].player_tag) :
              table[j].recorded_at <= table[i].recorded_at }

\* LEFT JOIN clan_members cm ON crh.player_tag = cm.player_tag, and
\* "row[9] or 'member'"
RoleOf(members, player_tag) ==
    IF RowsOf(members, player_tag) = {} THEN "member"
    ELSE members[Min(RowsOf(members, player_tag))].role

clan_rankings_data(table, members) ==
    { [player_tag |-> table[i].player_tag,
       clan_rank |-> table[i].clan_rank,
       trophies |-> table[i].trophies,
       trophy_change |-> table[i].trophy_change,
       donation_change |-> table[i].donation_change,
       recorded_at |-> table[i].recorded_at,
       role |-> RoleOf(members, table[i].player_tag)] : i \in LatestRankings(table) }

\* a bug that deletes the rows a later snapshot has superseded
GetClanRankingsData_prunes ==
    /\ report' = [op |-> "get_clan_rankings_data",
                  result |-> clan_rankings_data(clan_rankings_history, clan_members)]
    /\ clan_rankings_history' =
           SelectSeq(clan_rankings_history,
                     LAMBDA r : \A j \in RowsOf(clan_rankings_history, r.player_tag) :
                                    clan_rankings_history[j].recorded_at <= r.recorded_at)
    /\ UNCHANGED <<clock, battles, clan_member_decks, calls,
                   observed, lastRefresh, history, lastLog, clan_members, daily, run,
                   lastObserved>>

GetClanRankingsData ==
    /\ report' = [op |-> "get_clan_rankings_data",
                  result |-> clan_rankings_data(clan_rankings_history, clan_members)]
    /\ UNCHANGED <<clock, battles, clan_rankings_history, clan_member_decks, calls,
                   observed, lastRefresh, history, lastLog, clan_members, daily, run,
                   lastObserved>>

\* SELECT ... FROM clan_rankings_history WHERE player_tag = ? AND
\* DATE(recorded_at) >= DATE('now', '-' || ? || ' days') ORDER BY recorded_at
\* DESC LIMIT ?.  The snapshots of the model are all of the current day, so
\* every window of at least a day holds them; LIMIT cuts the list.
player_clan_progression(table, player_tag, days_limit) ==
    LET rows == Reversed(Ascending(RowsOf(table, player_tag)))
        shown == IF days_limit < Len(rows) THEN days_limit ELSE Len(rows)
    IN [k \in 1..shown |->
           [clan_rank |-> table[rows[k]].clan_rank,
            trophies |-> table[rows[k]].trophies,
            trophy_change |-> table[rows[k]].trophy_change,
            donations |-> table[rows[k]].donations,
            donation_change |-> table[rows[k]].donation_change]]

GetPlayerClanProgression(player_tag, days_limit) ==
    /\ report' = [op |-> "get_player_clan_progression",
                  result |-> player_clan_progression(clan_rankings_history,
                                                     player_tag, days_limit)]
    /\ UNCHANGED <<clock, battles, clan_rankings_history, clan_member_decks, calls,
                   observed, lastRefresh, history, lastLog, clan_members, daily, run,
                   lastObserved>>

\* SELECT deck_cards, COUNT(*) as usage_count, GROUP_CONCAT(name, ', ') as
\* users FROM (latest row of every member) GROUP BY deck_cards
popular_decks(table) ==
    LET latest == { i \in 1..Len(table) : i = Max(RowsOf(table, table[i].player_tag)) }
    IN { [deck_cards |-> deck,
          usage_count |-> Cardinality({ i \in latest : table[i].deck_cards = deck }),
          users |-> { table[i].name : i \in { l \in latest : table[l].deck_cards = deck } }] :
         deck \in { table[i].deck_cards : i \in latest } }

GetClanDeckAnalytics ==
    /\ report' = [op |-> "get_clan_deck_analytics",
                  result |-> [popular_decks |-> popular_decks(clan_member_decks),
                              favorite_cards |-> favorite_cards(clan_member_decks),
                              deck_experimenters |-> deck_experimenters(clan_member_decks)]]
    /\ UNCHANGED <<clock, battles, clan_rankings_history, clan_member_decks, calls,
                   observed, lastRefresh, history, lastLog, clan_members, daily, run,
                   lastObserved>>

\* SELECT name, role, trophies, donations, ... FROM clan_members WHERE
\* player_tag = ?; None without a row
member_info(members, player_tag) ==
    IF RowsOf(members, player_tag) = {} THEN <<>>
    ELSE LET row == members[Min(RowsOf(members, player_tag))]
         IN <<[player_tag |-> player_tag, name |-> row.name, role |-> row.role,
               trophies |-> row.trophies, donations |-> row.donations]>>

GetMemberInfo(player_tag) ==
    /\ report' = [op |-> "get_member_info",
                  result |-> member_info(clan_members, player_tag)]
    /\ UNCHANGED <<clock, battles, clan_rankings_history, clan_member_decks, calls,
                   observed, lastRefresh, history, lastLog, clan_members, daily, run,
                   lastObserved>>

(***************************************************************************)
(* Specifications.                                                         *)
(***************************************************************************)
NoCall == [decks |-> 0, rankings |-> 0, members |-> 0, updates |-> 0]
NoDaily == [days_limit |-> 0, today |-> 0, daily_stats |-> <<>>]
NoRun == [at |-> "idle", members |-> <<>>, i |-> 0]
NoObservation == [tag |-> NULL, name |-> NULL, currentDeck |-> <<>>,
                  currentFavouriteCard |-> "", arena |-> NULL, trophies |-> 0]
NoHistory == [player_tag |-> NULL, periods |-> <<>>]
NoReport == [op |-> NULL, result |-> <<>>]

\* the store right after init_database on a fresh file
Init ==
    /\ clock = 0
    /\ battles = <<>>
    /\ clan_rankings_history = <<>>
    /\ clan_member_decks = <<>>
    /\ calls = NoCall
    /\ observed = [t \in Tags |-> [first |-> 0, last |-> 0]]
    /\ lastRefresh = [memberList |-> <<>>, recorded_at |-> 0]
    /\ history = NoHistory
    /\ lastLog = <<>>
    /\ clan_members = <<>>
    /\ daily = NoDaily
    /\ run = NoRun
    /\ lastObserved = NoObservation
    /\ report = NoReport

\* the writers called one by one, outside an update run
ObserveDeck ==
    /\ \E player_data \in PlayerData : SaveClanMemberDeckIfChanged(player_data)
    /\ UNCHANGED run

RefreshRankings ==
    /\ calls.rankings < MaxRefresh
    /\ \E memberList \in SeqsUpTo(Member, MaxRoster) : SaveClanRankingsHistory(memberList)
    /\ UNCHANGED run

IngestBattles ==
    /\ \E n \in 0..MaxBatch :
           \E log \in [1..n -> BattleRecord] : SaveBattles(Tracked, log)
    /\ UNCHANGED run

ReadDeckHistory == \E player_tag \in Tags : GetMemberDeckHistory(player_tag)

\* one writer at a time: the tables have one writer each
SpecDecks == Init /\ [][ObserveDeck]_vars
SpecRankings == Init /\ [][RefreshRankings]_vars
SpecBattles == Init /\ [][IngestBattles]_vars

\* get_member_deck_history over an arbitrary stored history
StoredDeckRow ==
    { [player_tag |-> t, name |-> "n1", deck_cards |-> d, favorite_card |-> "",
       arena_name |-> "Arena1", trophies |-> 1,
       first_seen |-> sp[1], last_seen |-> sp[2]] :
      t \in Tags, d \in Fingerprints, sp \in { <<1, 1>>, <<1, 2>>, <<2, 2>> } }

InitHistory ==
    /\ clock = 0
    /\ battles = <<>>
    /\ clan_rankings_history = <<>>
    /\ clan_member_decks \in SeqsUpTo(StoredDeckRow, MaxRows)
    /\ calls = NoCall
    /\ observed = [t \in Tags |-> [first |-> 0, last |-> 0]]
    /\ lastRefresh = [memberList |-> <<>>, recorded_at |-> 0]
    /\ history = NoHistory
    /\ lastLog = <<>>
    /\ clan_members = <<>>
    /\ daily = NoDaily
    /\ run = NoRun
    /\ lastObserved = NoObservation
    /\ report = NoReport

SpecHistory == InitHistory /\ [][ReadDeckHistory]_vars

\* get_daily_battle_stats over an arbitrary stored battles table
ReadDailyStats ==
    \E today \in Todays, days_limit \in 0..MaxWindow :
        GetDailyBattleStats(today, days_limit)

StoredBattleTimes == { Time(9, "a"), Time(10, "a"), Time(10, "b"), Time(11, "a") }

StoredBattleRow ==
    { [player_tag |-> Tracked, battle_time |-> t, battle_type |-> "PvP",
       game_mode |-> "Ladder", result |-> Result(c[1], c[2]), crowns |-> c[1],
       deck_cards |-> format_deck(DeckAB), opponent_tag |-> "O1",
       trophy_change |-> Absent] :
      t \in StoredBattleTimes, c \in { <<1, 0>>, <<0, 1>>, <<0, 0>> } }

InitDaily ==
    /\ clock = 0
    /\ battles \in { table \in SeqsUpTo(StoredBattleRow, MaxRows) :
                       \A i, j \in 1..Len(table) :
                           table[i].battle_time = table[j].battle_time => i = j }
    /\ clan_rankings_history = <<>>
    /\ clan_member_decks = <<>>
    /\ calls = NoCall
    /\ observed = [t \in Tags |-> [first |-> 0, last |-> 0]]
    /\ lastRefresh = [memberList |-> <<>>, recorded_at |-> 0]
    /\ history = NoHistory
    /\ lastLog = <<>>
    /\ clan_members = <<>>
    /\ daily = NoDaily
    /\ run = NoRun
    /\ lastObserved = NoObservation
    /\ report = NoReport

SpecDaily == InitDaily /\ [][ReadDailyStats]_vars

RefreshMembers ==
    /\ \E memberList \in SeqsUpTo(MemberRecord, MaxRoster) : SaveClanMembers(memberList)
    /\ UNCHANGED run

SpecMembers == Init /\ [][RefreshMembers]_vars

\* the scheduled job: runs of update_player_data
Update == UpdateStart \/ UpdateMembers \/ UpdateRankings \/ UpdateDetails \/ UpdateBattles

SpecUpdate == Init /\ [][Update]_vars

\* the two writers that catch sqlite3.Error, fed with records for which the
\* INSERT raises it: a member whose name, a battle whose type cannot be bound
FaultyMember ==
    { [tag |-> "P1", name |-> "n1", trophies |-> 1, donations |-> 0],
      [tag |-> "P1", name |-> "n1", trophies |-> 3, donations |-> 1],
      [tag |-> "P2", name |-> UNBINDABLE, trophies |-> 2, donations |-> 1] }

FaultyBattleRecord ==
    { Battle(Time(10, "a"), "PvP", "Ladder",
             <<TeamEntry("P1", Present(1), DeckAB, Present(1))>>,
             <<OpponentEntry("O1", Present(0))>>),
      Battle(Time(10, "b"), UNBINDABLE, "Ladder",
             <<TeamEntry("P1", Present(0), DeckAC, Present(-1))>>,
             <<OpponentEntry("O2", Present(1))>>) }

\* a roster names a member once
RefreshFaulty ==
    /\ calls.rankings < MaxRefresh
    /\ \E memberList \in SeqsUpTo(FaultyMember, MaxRoster) :
           /\ \A i, j \in 1..Len(memberList) :
                  memberList[i].tag = memberList[j].tag => i = j
           /\ SaveClanRankingsHistory(memberList)
    /\ UNCHANGED run

IngestFaulty ==
    /\ \E n \in 0..MaxBatch :
           \E log \in [1..n -> FaultyBattleRecord] : SaveBattles(Tracked, log)
    /\ UNCHANGED run

SpecFaults == Init /\ [][RefreshFaulty \/ IngestFaulty]_vars

\* one member keeping one deck while favorite card, arena and trophies move
ObserveCosmetics ==
    /\ \E player_data \in PlayerRecords({"P1"}, {"n1"}, { <<Card("A", 1), Card("B", 1)>> },
                                        FavoriteCards, Arenas, Trophies) :
           SaveClanMemberDeckIfChanged(player_data)
    /\ UNCHANGED run

SpecCosmetics == Init /\ [][ObserveCosmetics]_vars

\* crown counts of a team or opponent entry: missing, 0 or 1
CrownCounts == { Absent, Present(0), Present(1) }

\* battle-log entries of the tracked player with every combination of own
\* crowns and of a missing or present opponent with or without crowns
CrownRecord ==
    { Battle(Time(12, tod), "PvP", "Ladder",
             <<TeamEntry(Tracked, own, DeckAB, Absent)>>, opponent) :
          tod \in {"a", "b"}, own \in CrownCounts,
          opponent \in {<<>>} \cup { <<OpponentEntry("O1", c)>> : c \in CrownCounts } }

IngestCrowns ==
    /\ \E battle \in CrownRecord : SaveBattles(Tracked, <<battle>>)
    /\ UNCHANGED run

SpecResults == Init /\ [][IngestCrowns]_vars

\* one member over time: trophies rise and fall, donations are reset
ProgressMember ==
    { [tag |-> "P1", name |-> "n1", trophies |-> t, donations |-> d] :
          t \in {1, 2, 3}, d \in {0, 1} }

RefreshProgress ==
    /\ calls.rankings < MaxSnapshots
    /\ \E memberList \in SeqsUpTo(ProgressMember, 1) : SaveClanRankingsHistory(memberList)
    /\ UNCHANGED run

SpecProgress == Init /\ [][RefreshProgress]_vars

\* battle-log entries of three battles, an entry of the tracked player
\* without battleTime, and an entry without battleTime and without team
BatchRecord ==
    { Battle(Time(13, tod), "PvP", "Ladder",
             <<TeamEntry(Tracked, Present(1), DeckAB, Present(1))>>,
             <<OpponentEntry("O1", Present(0))>>) : tod \in {"a", "b", "c"} }
    \cup { Battle(Absent, "PvP", "Ladder",
                  <<TeamEntry(Tracked, Present(1), DeckAB, Present(1))>>,
                  <<OpponentEntry("O1", Present(0))>>),
           Battle(Absent, "PvP", "Ladder", <<>>, <<OpponentEntry("O1", Present(0))>>) }

IngestBatch ==
    /\ \E n \in 0..MaxBatch : \E log \in [1..n -> BatchRecord] : SaveBattles(Tracked, log)
    /\ UNCHANGED run

SpecBatch == Init /\ [][IngestBatch]_vars

\* an update cycle that may be cut off and is then run again from the start
\* with the data the first pass fetched.  run holds the position, the pass,
\* the fetched clan roster, player record and battle log, and the
\* tables as they were when the cycle began.
RetryRoster == <<ClanMember("P1", "n1", "member", 2, 0)>>

RetryPlayers ==
    PlayerRecords({"P1"}, {"n1"},
                  { <<Card("A", 1), Card("B", 1)>>, <<Card("A", 1), Card("C", 1)>> },
                  {""}, {"Arena1"}, {1})

\* a battle with type and game mode, and one whose record has no type
RetryRecord ==
    { Battle(Time(14, "a"), "PvP", "Ladder",
             <<TeamEntry(Tracked, Present(1), DeckAB, Present(1))>>,
             <<OpponentEntry("O1", Present(0))>>),
      Battle(Time(14, "b"), NULL, "Ladder",
             <<TeamEntry(Tracked, Present(0), DeckAB, Absent)>>,
             <<OpponentEntry("O1", Present(1))>>) }

\* an observation of an earlier cycle
CyclePrior ==
    /\ run.at = "idle"
    /\ calls.decks = 0
    /\ \E player_data \in RetryPlayers : SaveClanMemberDeckIfChanged(player_data)
    /\ UNCHANGED run

\* get_player_info, get_clan_info, get_player_info of the member, get_battle_log
CycleStart ==
    /\ run.at = "idle"
    /\ \E player_data \in RetryPlayers :
           \E n \in 0..MaxBatch : \E log \in [1..n -> RetryRecord] :
               run' = [at |-> "members", members |-> RetryRoster, i |-> 1, pass |-> 1,
                       player_data |-> player_data, log |-> log,
                       start |-> [battles |-> battles, decks |-> clan_member_decks]]
    /\ UNCHANGED <<clock, battles, clan_rankings_history, clan_member_decks, calls,
                   observed, lastRefresh, history, lastLog, clan_members, daily,
                   lastObserved, report>>

CycleMembers ==
    /\ run.at = "members"
    /\ SaveClanMembers(run.members)
    /\ run' = [run EXCEPT !.at = "rankings"]

CycleRankings ==
    /\ run.at = "rankings"
    /\ SaveClanRankingsHistory(run.members)
    /\ run' = [run EXCEPT !.at = "details"]

CycleDetails ==
    /\ run.at = "details"
    /\ SaveClanMemberDeckIfChanged(run.player_data)
    /\ run' = [run EXCEPT !.at = "battles"]

\* "if battles: self.save_battles(player_tag, battles)"
CycleBattles ==
    /\ run.at = "battles"
    /\ run' = [run EXCEPT !.at = "done"]
    /\ IF run.log = <<>>
       THEN UNCHANGED <<clock, battles, clan_rankings_history, clan_member_decks,
                        calls, observed, lastRefresh, history, lastLog,
                        clan_members, daily, lastObserved, report>>
       ELSE SaveBattles(Tracked, run.log)

\* the process ends between two store operations, before the first or after
\* the last, and the next trigger starts the cycle again
CycleCut ==
    /\ run.at \in { "members", "rankings", "details", "battles", "done" }
    /\ run.pass = 1
    /\ run' = [run EXCEPT !.at = "members", !.pass = 2]
    /\ UNCHANGED <<clock, battles, clan_rankings_history, clan_member_decks, calls,
                   observed, lastRefresh, history, lastLog, clan_members, daily,
                   lastObserved, report>>

Retry ==
    \/ CyclePrior \/ CycleStart \/ CycleMembers \/ CycleRankings \/ CycleDetails
    \/ CycleBattles \/ CycleCut

SpecRetry == Init /\ [][Retry]_vars

\* the report generators over a stored database: battles at up to MaxRows
\* of the stored times, won and lost in turn; deck rows of two members;
\* rankings of one or two snapshots; a roster of one member
ReadTimes == <<Time(9, "a"), Time(10, "a"), Time(10, "b"), Time(11, "a")>>

ReadBattleTables ==
    { LET ids == Ascending(S)
      IN [k \in 1..Len(ids) |->
             [player_tag |-> Tracked, battle_time |-> ReadTimes[ids[k]],
              battle_type |-> "PvP", game_mode |-> "Ladder",
              result |-> IF k % 2 = 1 THEN "victory" ELSE "defeat",
              crowns |-> k % 2, deck_cards |-> format_deck(DeckAB),
              opponent_tag |-> "O1",
              trophy_change |-> IF k % 2 = 1 THEN Present(1) ELSE Absent]] :
      S \in SUBSET (1..MaxRows) }

ReadDeckRow(tag, name, deck, favorite, first_seen, last_seen) ==
    [player_tag |-> tag, name |-> name, deck_cards |-> deck, favorite_card |-> favorite,
     arena_name |-> "Arena1", trophies |-> 1,
     first_seen |-> first_seen, last_seen |-> last_seen]

ReadDeckTables ==
    { <<>>,
      <<ReadDeckRow("P1", "n1", "A | B", "A", 1, 2), ReadDeckRow("P1", "n1", "A | C", "", 3, 3)>>,
      <<ReadDeckRow("P1", "n1", "A | B", "", 1, 1), ReadDeckRow("P2", "n2", "A | B", "A", 2, 4),
        ReadDeckRow("P1", "n1", "A | C", "A", 3, 3)>> }

ReadRankingTables ==
    LET first == RankingLoop(<<>>, members_sorted(
                     <<[tag |-> "P1", name |-> "n1", trophies |-> 1, donations |-> 0],
                       [tag |-> "P2", name |-> "n2", trophies |-> 2, donations |-> 0]>>), 1, 1)
    IN { <<>>, first,
         RankingLoop(first, members_sorted(
             <<[tag |-> "P1", name |-> "n1", trophies |-> 2, donations |-> 1]>>), 1, 2) }

ReadMemberTables ==
    { <<>>, MembersLoop(<<>>, <<ClanMember("P1", "n1", "elder", 1, 1)>>, 1) }

InitReads ==
    /\ clock = 0
    /\ battles \in ReadBattleTables
    /\ clan_rankings_history \in ReadRankingTables
    /\ clan_member_decks \in ReadDeckTables
    /\ calls = NoCall
    /\ observed = [t \in Tags |-> [first |-> 0, last |-> 0]]
    /\ lastRefresh = [memberList |-> <<>>, recorded_at |-> 0]
    /\ history = NoHistory
    /\ lastLog = <<>>
    /\ clan_members \in ReadMemberTables
    /\ daily = NoDaily
    /\ run = NoRun
    /\ lastObserved = NoObservation
    /\ report = NoReport

\* generate_html_report and generate_member_page call the queries
Reads ==
    \/ GetPlayerStats
    \/ GetDeckPerformance
    \/ GetDailyBattleStats(11, MaxWindow)
    \/ GetClanRankingsData
    \/ \E player_tag \in Tags, days_limit \in {1, 2} :
           GetPlayerClanProgression(player_tag, days_limit)
    \/ GetClanDeckAnalytics
    \/ ReadDeckHistory
    \/ \E player_tag \in Tags : GetMemberInfo(player_tag)

SpecReads == InitReads /\ [][Reads]_vars

\* the deck observations of one member
ObserveMember ==
    /\ \E player_data \in PlayerRecords({"P1"}, {"n1"}, CardLists, FavoriteCards,
                                        {"Arena1"}, {1}) :
           SaveClanMemberDeckIfChanged(player_data)
    /\ UNCHANGED run

SpecMember == Init /\ [][ObserveMember]_vars

Next ==
    \/ ObserveDeck \/ RefreshRankings \/ RefreshMembers \/ IngestBattles
    \/ RefreshFaulty \/ IngestFaulty \/ ObserveCosmetics \/ IngestCrowns \/ RefreshProgress \/ IngestBatch \/ ObserveMember
    \/ ReadDeckHistory \/ ReadDailyStats \/ Update \/ Retry \/ Reads

Spec == Init /\ [][Next]_vars

(***************************************************************************)
(* Properties.                                                             *)
(***************************************************************************)
SameBattleKey(r1, r2) ==
    /\ r1.player_tag = r2.player_tag
    /\ r1.battle_time = r2.battle_time
    /\ r1.battle_type = r2.battle_type
    /\ r1.game_mode = r2.game_mode

\* C1: the battles table holds one row per battle key (player tag, battle
\* time, battle type, game mode), a NULL type or game mode included:
\* no two rows carry the same key.
C1_OneRowPerBattleKey ==
    \A i, j \in 1..Len(battles) :
        SameBattleKey(battles[i], battles[j]) => i = j

\* the member's rows in id order
MemberRows(table, tag) ==
    LET ids == Ascending(RowsOf(table, tag))
    IN [k \in 1..Len(ids) |-> table[ids[k]]]

\* C2: no two rows of clan_member_decks that are consecutive in id order
\* for one member carry the same deck_cards fingerprint.
C2_NoConsecutiveDuplicateDecks ==
    \A t \in Tags :
        LET rows == MemberRows(clan_member_decks, t)
        IN \A k \in 1..(Len(rows) - 1) : rows[k].deck_cards # rows[k + 1].deck_cards

\* a member was observed with a deck, again with that deck, then with another
C2_Witness ==
    \E t \in Tags :
        LET rows == MemberRows(clan_member_decks, t)
        IN Len(rows) = 2 /\ rows[1].first_seen < rows[1].last_seen

\* the snapshots of S split into Len(P) consecutive non-empty blocks, block
\* k holding snapshots of the fingerprint of period k (P oldest first)
SplitsInto(S, P) ==
    /\ (P = <<>>) <=> (S = <<>>)
    /\ \E starts \in [1..Len(P) -> 1..Len(S)] :
           /\ P # <<>> => starts[1] = 1
           /\ \A k \in 1..(Len(P) - 1) : starts[k] < starts[k + 1]
           /\ \A k \in 1..Len(P) :
                  \A i \in starts[k]..(IF k = Len(P) THEN Len(S) ELSE starts[k + 1] - 1) :
                      S[i].deck_cards = P[k].deck_cards

\* C3: the periods get_member_deck_history returns place every snapshot of
\* the member's ordered history in exactly one period (of its fingerprint),
\* and no two adjacent periods have the same fingerprint.
C3_PeriodsPartitionSnapshots ==
    history.player_tag # NULL =>
        LET S == RawHistory(clan_member_decks, history.player_tag)
            P == history.periods
        IN /\ SplitsInto(S, Reversed(P))
           /\ \A k \in 1..(Len(P) - 1) : P[k].deck_cards # P[k + 1].deck_cards

\* a history of three snapshots was consolidated into two periods
C3_Witness ==
    /\ history.player_tag # NULL
    /\ Len(RawHistory(clan_member_decks, history.player_tag)) = 3
    /\ Len(history.periods) = 2

\* the maximal runs of equal fingerprints of S, oldest first, stamped with
\* the first_seen of the run's first snapshot and the last_seen of its last
RunStarts(S) == { i \in 1..Len(S) : i = 1 \/ S[i].deck_cards # S[i - 1].deck_cards }
RunEnd(S, i) == Min({ j \in RunStarts(S) : j > i } \cup { Len(S) + 1 }) - 1
MaximalRuns(S) ==
    LET starts == Ascending(RunStarts(S))
    IN [k \in 1..Len(starts) |->
           [deck_cards |-> S[starts[k]].deck_cards,
            first_seen |-> S[starts[k]].first_seen,
            last_seen |-> S[RunEnd(S, starts[k])].last_seen]]

Stamp(period) ==
    [deck_cards |-> period.deck_cards,
     first_seen |-> period.first_seen,
     last_seen |-> period.last_seen]

\* C4: get_member_deck_history returns exactly the maximal runs of equal
\* fingerprints, each stamped with the first_seen of its first snapshot and
\* the last_seen of its last one, most recent first; no snapshot, no period.
C4_PeriodsAreMaximalRuns ==
    history.player_tag # NULL =>
        LET S == RawHistory(clan_member_decks, history.player_tag)
            P == history.periods
        IN [k \in 1..Len(P) |-> Stamp(P[k])] = Reversed(MaximalRuns(S))

\* three snapshots with one deck, the last one ending later, became one period
C4_Witness ==
    /\ history.player_tag # NULL
    /\ Len(RawHistory(clan_member_decks, history.player_tag)) = 3
    /\ Len(history.periods) = 1
    /\ history.periods[1].first_seen < history.periods[1].last_seen

C6_LeaderboardCountsPeriods ==
    \A e \in deck_experimenters(clan_member_decks) :
        (\A i \in RowsOf(clan_member_decks, e.player_tag) :
             clan_member_decks[i].name = e.name)
        => e.deck_changes = Len(get_member_deck_history(clan_member_decks, e.player_tag))

\* C7: the first row clan_rankings_history holds for a member has
\* trophy_change = 0 and donation_change = 0.
C7_FirstSnapshotZeroDeltas ==
    \A t \in Tags :
        RowsOf(clan_rankings_history, t) # {} =>
            LET first == clan_rankings_history[Min(RowsOf(clan_rankings_history, t))]
            IN first.trophy_change = 0 /\ first.donation_change = 0

\* a member's first row, and a later row of that member with deltas
C7_Witness ==
    \E t \in Tags :
        LET rows == MemberRows(clan_rankings_history, t)
        IN Len(rows) = 2 /\ rows[1].trophies = 2 /\ rows[1].donations = 1
           /\ rows[2].trophy_change # 0 /\ rows[2].donation_change # 0

\* the member's row with the greatest recorded_at among the rows before id i
PriorRow(table, i) ==
    LET earlier == { j \in RowsOf(table, table[i].player_tag) : j < i }
    IN IF earlier = {} THEN 0
       ELSE CHOOSE j \in earlier :
                \A k \in earlier : table[k].recorded_at <= table[j].recorded_at

\* C8: a row written for a member who had rows carries the deltas against
\* that member's own row with the greatest recorded_at.
C8_DeltasAgainstOwnPreviousRow ==
    \A i \in 1..Len(clan_rankings_history) :
        LET row == clan_rankings_history[i]
            prior == PriorRow(clan_rankings_history, i)
        IN prior # 0 =>
               /\ row.trophy_change =
                      row.trophies - clan_rankings_history[prior].trophies
               /\ row.donation_change =
                      row.donations - clan_rankings_history[prior].donations

\* deltas were computed while the latest row of the table was another
\* member's, with other trophies
C8_Witness ==
    \E i \in 2..Len(clan_rankings_history) :
        LET row == clan_rankings_history[i]
            prior == PriorRow(clan_rankings_history, i)
            before == clan_rankings_history[i - 1]
        IN /\ prior # 0
           /\ before.player_tag # row.player_tag
           /\ before.trophies # clan_rankings_history[prior].trophies
           /\ row.trophy_change # 0
           /\ row.donation_change # 0

DistinctTags(memberList) ==
    \A i, j \in 1..Len(memberList) : memberList[i].tag = memberList[j].tag => i = j

\* the rows the latest refresh wrote
WrittenRows ==
    { i \in 1..Len(clan_rankings_history) :
          clan_rankings_history[i].recorded_at = lastRefresh.recorded_at }

RankingsUnique ==
    \A i, j \in 1..Len(clan_rankings_history) :
        (/\ clan_rankings_history[i].player_tag = clan_rankings_history[j].player_tag
         /\ clan_rankings_history[i].recorded_at = clan_rankings_history[j].recorded_at)
        => i = j

RankingsKept ==
    /\ Len(clan_rankings_history') >= Len(clan_rankings_history)
    /\ \A i \in 1..Len(clan_rankings_history) :
           clan_rankings_history'[i] = clan_rankings_history[i]

\* C10: clan_rankings_history holds at most one row per (player tag,
\* recorded_at), and no step changes or removes a row it holds: a second
\* snapshot of a member at a timestamp the member has is ignored.
C10_OneRowPerMemberAndTime == [](RankingsUnique) /\ [][RankingsKept]_vars

\* a roster listing a member twice, with different values, left one row
C10_Witness ==
    LET roster == lastRefresh.memberList
    IN /\ Len(roster) = 2
       /\ roster[1].tag = roster[2].tag
       /\ roster[1].trophies # roster[2].trophies
       /\ Cardinality(WrittenRows) = 1

\* C11: get_daily_battle_stats(N) returns exactly N records, whose dates are
\* the N consecutive calendar days that end today, in increasing order, for
\* every N >= 0 and every battles table.
C11_WindowOfNDays ==
    daily # NoDaily =>
        /\ Len(daily.daily_stats) = daily.days_limit
        /\ \A i \in 1..Len(daily.daily_stats) :
               daily.daily_stats[i].date = daily.today - daily.days_limit + i

\* the battles stored for a calendar day
BattlesOn(date) ==
    { i \in 1..Len(battles) : BattleDate(battles[i].battle_time) = date }

\* C12: each record of get_daily_battle_stats counts exactly the stored
\* battles whose battle_time falls on the record's day: wins, losses and
\* draws by result, total_battles their sum; a day without battles is
\* reported with zeros; a battle outside the window is counted by no record.
C12_DayCountsStoredBattles ==
    daily # NoDaily =>
        /\ \A i \in 1..Len(daily.daily_stats) :
               LET r == daily.daily_stats[i]
                   Of(result) == Cardinality({ b \in BattlesOn(r.date) :
                                                 battles[b].result = result })
               IN /\ r.wins = Of("victory")
                  /\ r.losses = Of("defeat")
                  /\ r.draws = Of("draw")
                  /\ r.total_battles = r.wins + r.losses + r.draws
                  /\ r.total_battles = Cardinality(BattlesOn(r.date))
        /\ \A b \in 1..Len(battles) :
               Cardinality({ i \in 1..Len(daily.daily_stats) :
                   /\ daily.daily_stats[i].date = BattleDate(battles[b].battle_time)
                   /\ daily.daily_stats[i].total_battles > 0 })
               = IF /\ daily.days_limit >= 1
                    /\ BattleDate(battles[b].battle_time) <= daily.today
                    /\ BattleDate(battles[b].battle_time) > daily.today - daily.days_limit
                 THEN 1 ELSE 0

\* a window with a day of several battles, a day of none, and a stored
\* battle older than the window
C12_Witness ==
    /\ daily # NoDaily
    /\ \E i, j \in 1..Len(daily.daily_stats) :
           /\ daily.daily_stats[i].total_battles >= 2
           /\ daily.daily_stats[i].wins >= 1
           /\ daily.daily_stats[i].losses + daily.daily_stats[i].draws >= 1
           /\ daily.daily_stats[j].total_battles = 0
    /\ \E b \in 1..Len(battles) :
           BattleDate(battles[b].battle_time) <= daily.today - daily.days_limit

\* the stored battles fought with a deck, and those of them with a result
FoughtWith(deck_cards) ==
    { i \in 1..Len(battles) : battles[i].deck_cards = deck_cards }

FoughtWithResult(deck_cards, result) ==
    { i \in FoughtWith(deck_cards) : battles[i].result = result }

\* C13: in every row of the deck-performance view over a battles table that
\* save_battles wrote, wins = total_battles - losses - draws, draws being
\* the battles of the deck with result draw, and the win rate is the rate of
\* total_battles - losses - draws in total_battles.
C13_WinsAreTheRest ==
    \A row \in deck_performance(battles) :
        LET draws == Cardinality(FoughtWithResult(row.deck_cards, "draw"))
        IN /\ row.wins = row.total_battles - row.losses - draws
           /\ row.win_rate = WinRate(row.total_battles - row.losses - draws,
                                     row.total_battles)

\* a deck with a draw and a win, or with a draw and a loss
C13_Witness ==
    \E row \in deck_performance(battles) :
        /\ row.wins + row.losses >= 1
        /\ FoughtWithResult(row.deck_cards, "draw") # {}

RECURSIVE TrophySum(_)
TrophySum(ids) ==
    IF ids = {} THEN 0
    ELSE LET i == CHOOSE j \in ids : TRUE
             change == IF battles[i].trophy_change = Absent THEN 0
                       ELSE battles[i].trophy_change[1]
         IN change + TrophySum(ids \ {i})

\* C14: the deck-performance view has one row per deck fingerprint of the
\* stored battles: total_battles, wins and losses count the stored battles
\* with that fingerprint, with result victory, with result defeat;
\* total_trophy_change sums their trophy changes, a missing one as 0; every
\* stored battle is counted in exactly one row.
C14_GroupsByFingerprint ==
    /\ \A row \in deck_performance(battles) :
           /\ FoughtWith(row.deck_cards) # {}
           /\ row.total_battles = Cardinality(FoughtWith(row.deck_cards))
           /\ row.wins = Cardinality(FoughtWithResult(row.deck_cards, "victory"))
           /\ row.losses = Cardinality(FoughtWithResult(row.deck_cards, "defeat"))
           /\ row.total_trophy_change = TrophySum(FoughtWith(row.deck_cards))
    /\ \A i \in 1..Len(battles) :
           Cardinality({ row \in deck_performance(battles) :
                           row.deck_cards = battles[i].deck_cards }) = 1

\* a deck of two battles, one of them without trophy change and stored
\* after the one with a trophy change
C14_Witness ==
    \E row \in deck_performance(battles) :
        /\ row.total_battles = 2
        /\ row.total_trophy_change # 0
        /\ \E i \in 2..Len(battles) :
               /\ battles[i].trophy_change = Absent
               /\ battles[i - 1].trophy_change # Absent

\* the rows stored before a step are the first rows after it, unchanged
BattlesKept ==
    /\ Len(battles') >= Len(battles)
    /\ \A i \in 1..Len(battles) : battles'[i] = battles[i]

\* C15: no step updates or deletes a row of battles: a battle whose key is
\* stored and that is ingested again, with whatever values, leaves every
\* column of the stored row as the first ingestion wrote it.
C15_StoredBattlesImmutable == [][BattlesKept]_vars

\* the latest log held a record of the player with the key of a stored row
\* and with other values
C15_Witness ==
    \E k \in 1..Len(lastLog), i \in 1..Len(battles) :
        /\ player_team(lastLog[k], Tracked) # 0
        /\ SameBattleKey(BattleRow(lastLog[k], Tracked), battles[i])
        /\ battles[i].battle_type # NULL
        /\ BattleRow(lastLog[k], Tracked).result # battles[i].result
        /\ BattleRow(lastLog[k], Tracked).deck_cards # battles[i].deck_cards
        /\ BattleRow(lastLog[k], Tracked).trophy_change # battles[i].trophy_change
        /\ BattleRow(lastLog[k], Tracked).opponent_tag # battles[i].opponent_tag

\* the records of a log that have a team entry of the player
WithPlayerTeam(log, player_tag) ==
    SelectSeq(log, LAMBDA battle : \E i \in 1..Len(battle.team) :
                                       battle.team[i].tag = player_tag)

\* C16: save_battles skips a record none of whose team entries has the
\* player's tag (a record without team list included): the store after the
\* call is the store the same log without these records gives, so no row is
\* written for them, nothing else changes and the other records of the log
\* are processed.
C16_TeamlessRecordsSkipped ==
    [][/\ battles' = BattleLoop(battles, Tracked, WithPlayerTeam(lastLog', Tracked))
       /\ Len(battles') - Len(battles) <= Len(WithPlayerTeam(lastLog', Tracked))
       /\ UNCHANGED <<clan_rankings_history, clan_member_decks, clan_members>>]_vars

\* the latest log began with a record without the player's team and went on
\* with a record that is stored
C16_Witness ==
    /\ Len(lastLog) = 2
    /\ WithPlayerTeam(lastLog, Tracked) = <<lastLog[2]>>
    /\ battles = <<BattleRow(lastLog[2], Tracked)>>

\* C19: after a roster refresh clan_members has one row per player tag, the
\* row of every member of the refreshed roster carries the values of this
\* refresh, and there is no row for a player who is not in the refreshed
\* roster.
C19_TableIsCurrentRoster ==
    LET roster == lastRefresh.memberList
    IN (lastRefresh.recorded_at > 0 /\ ~save_clan_members_raises(roster)) =>
           /\ \A i, j \in 1..Len(clan_members) :
                  clan_members[i].player_tag = clan_members[j].player_tag => i = j
           /\ \A k \in 1..Len(roster) :
                  \E i \in 1..Len(clan_members) :
                      /\ clan_members[i].player_tag = roster[k].tag
                      /\ clan_members[i].last_updated = lastRefresh.recorded_at
                      /\ \E l \in k..Len(roster) :
                             clan_members[i] =
                                 ClanMemberRow(roster[l], lastRefresh.recorded_at)
           /\ \A i \in 1..Len(clan_members) :
                  \E k \in 1..Len(roster) : roster[k].tag = clan_members[i].player_tag

\* C17: a clan member record without tag, name or role is skipped and the
\* run continues: the run does not end at it, nothing of the record is
\* stored, the other members of the roster get their rows in clan_members
\* and in clan_rankings_history, and the run goes on to deck tracking and
\* battle ingestion.
C17_IncompleteMemberSkipped ==
    LET roster == run.members
        complete == { k \in 1..Len(roster) : HasRequiredFields(roster[k]) }
    IN (run.at \notin { "idle", "members" } /\ save_clan_members_raises(roster)) =>
           /\ run.at # "crashed"
           /\ \A k \in complete :
                  \E i \in 1..Len(clan_members) :
                      clan_members[i].player_tag = roster[k].tag
           /\ \A i \in 1..Len(clan_members) :
                  MISSING \notin { clan_members[i].player_tag, clan_members[i].name,
                                   clan_members[i].role }
           /\ run.at \in { "details", "battles", "done" } =>
                  \A k \in complete :
                      \E i \in 1..Len(clan_rankings_history) :
                          clan_rankings_history[i].player_tag = roster[k].tag

\* the records of a log whose INSERT does not raise
Storable(log) == SelectSeq(log, LAMBDA battle : battle.type # UNBINDABLE)

\* a battle log with a failing record gives the store that the log without
\* the record gives
FailingBattleOnlyLost ==
    battles' = BattleLoop(battles, Tracked, Storable(lastLog'))

\* every member of the refreshed roster whose INSERT does not raise has the
\* row of this refresh, with the rank of the member's place in the roster
\* by trophies; the rows of earlier refreshes stay
FailingRankingOnlyLost ==
    lastRefresh' # lastRefresh =>
        LET sorted == members_sorted(lastRefresh'.memberList)
        IN /\ \A k \in 1..Len(sorted) :
                  sorted[k].name # UNBINDABLE =>
                      \E i \in Len(clan_rankings_history) + 1..Len(clan_rankings_history') :
                          /\ clan_rankings_history'[i].player_tag = sorted[k].tag
                          /\ clan_rankings_history'[i].recorded_at = lastRefresh'.recorded_at
                          /\ clan_rankings_history'[i].clan_rank = k
                          /\ clan_rankings_history'[i].trophies = sorted[k].trophies
           /\ \A i \in 1..Len(clan_rankings_history) :
                  clan_rankings_history'[i] = clan_rankings_history[i]

\* C18: a storage error at one battle record or at one ranking snapshot does
\* not end the batch: the records behind the failing one are processed, and
\* the records written before and behind it are in the store after the call.
C18_StorageErrorLosesOneRecord ==
    [][FailingBattleOnlyLost /\ FailingRankingOnlyLost]_vars

\* the latest refresh had the failing member ranked before a member whose
\* row is stored, and the latest battle log had a stored battle before the
\* failing record
C18_Witness ==
    /\ Len(lastRefresh.memberList) = 2
    /\ members_sorted(lastRefresh.memberList)[1].name = UNBINDABLE
    /\ \E i \in 1..Len(clan_rankings_history) :
           /\ clan_rankings_history[i].recorded_at = lastRefresh.recorded_at
           /\ clan_rankings_history[i].clan_rank = 2
    /\ Len(lastLog) = 2
    /\ lastLog[2].type = UNBINDABLE
    /\ battles = <<BattleRow(lastLog[1], Tracked)>>

\* the members with snapshots, and the favorite card of a member's latest one
WithSnapshots == { t \in Tags : RowsOf(clan_member_decks, t) # {} }

CurrentFavorite(t) == clan_member_decks[Max(RowsOf(clan_member_decks, t))].favorite_card

RECURSIVE SumUsage(_)
SumUsage(tally) ==
    IF tally = {} THEN 0
    ELSE LET g == CHOOSE x \in tally : TRUE
         IN g.usage_count + SumUsage(tally \ {g})

\* C20: in the favorite-card tally a member counts at most once and only
\* with the favorite card of the latest snapshot: the count of a card is the
\* number of members whose latest snapshot has it, a card of older snapshots
\* only has no count, and the counts sum to at most the number of members
\* with snapshots.
C20_FavoriteTallyFromLatest ==
    LET tally == favorite_cards(clan_member_decks)
    IN /\ \A g \in tally :
              /\ g.card_name # ""
              /\ g.usage_count =
                     Cardinality({ t \in WithSnapshots : CurrentFavorite(t) = g.card_name })
              /\ g.usage_count >= 1
       /\ \A g, h \in tally : g.card_name = h.card_name => g = h
       /\ \A t \in WithSnapshots :
              CurrentFavorite(t) # "" =>
                  \E g \in tally : g.card_name = CurrentFavorite(t)
       /\ SumUsage(tally) <= Cardinality(WithSnapshots)

\* a member whose older snapshot has a favorite card and whose latest has
\* none, beside a member whose latest snapshot has that card
C20_Witness ==
    /\ \E t \in WithSnapshots :
           /\ CurrentFavorite(t) = ""
           /\ \E i \in RowsOf(clan_member_decks, t) :
                  clan_member_decks[i].favorite_card # ""
    /\ \E g \in favorite_cards(clan_member_decks) : g.usage_count = 1

\* a step of save_clan_member_deck_if_changed
DeckObserved == calls'.decks # calls.decks

\* the id of the latest row a member had before the step, 0 without rows
LatestBefore(t) ==
    IF RowsOf(clan_member_decks, t) = {} THEN 0 ELSE Max(RowsOf(clan_member_decks, t))

\* the observation of the step has the fingerprint of the member's latest row
SameAsLatest ==
    /\ LatestBefore(lastObserved'.tag) # 0
    /\ clan_member_decks[LatestBefore(lastObserved'.tag)].deck_cards
           = format_deck(lastObserved'.currentDeck)

C24_SameDeckExtendsRow ==
    [][(DeckObserved /\ SameAsLatest) =>
           LET last == LatestBefore(lastObserved'.tag)
           IN /\ Len(clan_member_decks') = Len(clan_member_decks)
              /\ \A i \in 1..Len(clan_member_decks) :
                     i # last => clan_member_decks'[i] = clan_member_decks[i]
              /\ clan_member_decks'[last].last_seen = clock'
              /\ clan_member_decks'[last].first_seen = clan_member_decks[last].first_seen
              /\ clan_member_decks'[last].deck_cards = clan_member_decks[last].deck_cards
              /\ clan_member_decks'[last].player_tag = lastObserved'.tag]_vars

\* the latest observation extended the latest row of a member who has an
\* older row too, beside rows of another member
C24_Witness ==
    /\ lastObserved # NoObservation
    /\ Cardinality(RowsOf(clan_member_decks, lastObserved.tag)) >= 2
    /\ \E t \in Tags \ {lastObserved.tag} : RowsOf(clan_member_decks, t) # {}
    /\ LET last == Max(RowsOf(clan_member_decks, lastObserved.tag))
       IN /\ clan_member_decks[last].last_seen = clock
          /\ clan_member_decks[last].first_seen < clock

\* C25: after a member is observed again with the fingerprint of the current
\* deck record, the record's favorite card, arena and trophies are the
\* observed ones, and so are those of the current period of the member's
\* deck history.
C25_CosmeticFieldsFollow ==
    lastObserved # NoObservation =>
        LET current == clan_member_decks[Max(RowsOf(clan_member_decks, lastObserved.tag))]
            period == get_member_deck_history(clan_member_decks, lastObserved.tag)[1]
        IN /\ current.favorite_card = lastObserved.currentFavouriteCard
           /\ current.arena_name = lastObserved.arena
           /\ current.trophies = lastObserved.trophies
           /\ period.favorite_card = lastObserved.currentFavouriteCard
           /\ period.arena_name = lastObserved.arena
           /\ period.trophies = lastObserved.trophies

\* two card lists with the same names, each as often
SameNames(cards1, cards2) ==
    \A n \in DOMAIN NameOrd :
        Cardinality({ i \in 1..Len(cards1) : cards1[i].name = n })
            = Cardinality({ i \in 1..Len(cards2) : cards2[i].name = n })

\* C26: card lists with the same names have the same fingerprint, whatever
\* their order and levels; a member observed with a list that has the names
\* of the deck of the latest own row gets no new row.
C26_FingerprintOfNamesOnly ==
    [][DeckObserved =>
           \A cards \in CardLists :
               SameNames(cards, lastObserved'.currentDeck) =>
                   /\ format_deck(cards) = format_deck(lastObserved'.currentDeck)
                   /\ (/\ LatestBefore(lastObserved'.tag) # 0
                       /\ clan_member_decks[LatestBefore(lastObserved'.tag)].deck_cards
                              = format_deck(cards))
                      => Len(clan_member_decks') = Len(clan_member_decks)]_vars

\* a member whose only row was written for one card list was observed later
\* with the other order and level of the same names, and has no second row
C26_Witness ==
    /\ lastObserved # NoObservation
    /\ lastObserved.currentDeck = <<Card("B", 2), Card("A", 1)>>
    /\ Cardinality(RowsOf(clan_member_decks, lastObserved.tag)) = 1
    /\ LET last == Max(RowsOf(clan_member_decks, lastObserved.tag))
       IN /\ clan_member_decks[last].last_seen = clock
          /\ clan_member_decks[last].first_seen < clock
          /\ clan_member_decks[last].deck_cards = "A | B"

\* the crown count a battle-log entry gives, 0 when it gives none
CrownsOrZero(entries) ==
    IF entries = <<>> THEN 0
    ELSE IF entries[1].crowns = <<>> THEN 0 ELSE entries[1].crowns[1]

\* the result the crowns of a battle-log entry stand for
ResultOfCrowns(battle) ==
    LET own == CrownsOrZero(<<battle.team[player_team(battle, Tracked)]>>)
        other == CrownsOrZero(battle.opponent)
    IN IF own > other THEN "victory" ELSE IF own < other THEN "defeat" ELSE "draw"

\* C27: every battle save_battles stores says victory, defeat or draw as the
\* player's crowns are more than, fewer than or as many as the first
\* opponent's, a missing opponent or crown count being 0; every stored result
\* is one of the three words and every player_tag is the ingesting player's.
C27_ResultFromCrowns ==
    [][/\ \A i \in (Len(battles) + 1)..Len(battles') :
              \E j \in 1..Len(lastLog') :
                  /\ player_team(lastLog'[j], Tracked) # 0
                  /\ battles'[i].battle_time = lastLog'[j].battleTime
                  /\ battles'[i].result = ResultOfCrowns(lastLog'[j])
       /\ \A i \in 1..Len(battles') :
              /\ battles'[i].result \in {"victory", "defeat", "draw"}
              /\ battles'[i].player_tag = Tracked]_vars

\* a stored defeat, and after it a stored draw from an entry whose opponent
\* has no crown count
C27_Witness ==
    /\ Len(battles) = 2
    /\ battles[1].result = "defeat"
    /\ battles[2].result = "draw"
    /\ battles[2].crowns = 0
    /\ battles[2].opponent_tag = "O1"
    /\ lastLog = <<Battle(Time(12, "b"), "PvP", "Ladder",
                          <<TeamEntry(Tracked, Present(0), DeckAB, Absent)>>,
                          <<OpponentEntry("O1", Absent)>>)>>

\* the sum of a column over the rows with the given ids
RECURSIVE SumOfColumn(_, _, _)
SumOfColumn(table, rows, column) ==
    IF rows = {} THEN 0
    ELSE LET i == CHOOSE r \in rows : TRUE
         IN table[i][column] + SumOfColumn(table, rows \ {i}, column)

\* C28: for every member the trophy_change values of all own ranking rows
\* add up to the trophies of the latest row minus those of the first row,
\* and the donation_change values to the same difference of donations.
C28_DeltasTelescope ==
    \A t \in Tags :
        LET rows == RowsOf(clan_rankings_history, t)
        IN rows # {} =>
               /\ SumOfColumn(clan_rankings_history, rows, "trophy_change")
                      = clan_rankings_history[Max(rows)].trophies
                            - clan_rankings_history[Min(rows)].trophies
               /\ SumOfColumn(clan_rankings_history, rows, "donation_change")
                      = clan_rankings_history[Max(rows)].donations
                            - clan_rankings_history[Min(rows)].donations

\* three rows of one member whose trophies rise by 2 and fall by 1
C28_Witness ==
    /\ Len(clan_rankings_history) = 3
    /\ clan_rankings_history[1].trophies = 1
    /\ clan_rankings_history[2].trophies = 3
    /\ clan_rankings_history[3].trophies = 2
    /\ clan_rankings_history[2].trophy_change = 2
    /\ clan_rankings_history[3].trophy_change = -1
    /\ clan_rankings_history[3].donation_change # 0

\* C29: on a store written by save_clan_member_deck_if_changed alone, at
\* strictly increasing times, consolidation merges nothing: a member has as
\* many periods as stored rows, and every period has the fingerprint,
\* first_seen and last_seen of one stored row of the member.
C29_NoMergeOnWriterStore ==
    \A t \in Tags :
        LET rows == RowsOf(clan_member_decks, t)
            periods == get_member_deck_history(clan_member_decks, t)
        IN /\ Len(periods) = Cardinality(rows)
           /\ \A k \in 1..Len(periods) :
                  \E i \in rows :
                      /\ periods[k].deck_cards = clan_member_decks[i].deck_cards
                      /\ periods[k].first_seen = clan_member_decks[i].first_seen
                      /\ periods[k].last_seen = clan_member_decks[i].last_seen

\* a member with three rows, the first deck back in the third and one row
\* extended by a later observation, whose history has three periods
C29_Witness ==
    \E t \in Tags :
        LET rows == RowsOf(clan_member_decks, t)
        IN /\ Cardinality(rows) = 3
           /\ clan_member_decks[Min(rows)].deck_cards = clan_member_decks[Max(rows)].deck_cards
           /\ \E i \in rows : clan_member_decks[i].first_seen < clan_member_decks[i].last_seen
           /\ Len(get_member_deck_history(clan_member_decks, t)) = 3

\* a stored row has the key of the battle-log entry
StoredAs(row, battle) ==
    /\ row.player_tag = Tracked
    /\ row.battle_time = battle.battleTime
    /\ row.battle_type = battle.type
    /\ row.game_mode = battle.gameMode

\* C30: save_battles commits once, after the last record: when the loop stops
\* at a record of the player without battleTime, no battle of the batch is
\* stored and the table is as before; otherwise the earlier rows stay and
\* every record with the player's team is in the table.
C30_BatchCommittedAtOnce ==
    [][IF \E j \in 1..Len(lastLog') :
              /\ player_team(lastLog'[j], Tracked) # 0
              /\ lastLog'[j].battleTime = <<>>
       THEN battles' = battles
       ELSE /\ Len(battles') >= Len(battles)
            /\ SubSeq(battles', 1, Len(battles)) = battles
            /\ \A j \in 1..Len(lastLog') :
                   player_team(lastLog'[j], Tracked) # 0 =>
                       \E i \in 1..Len(battles') : StoredAs(battles'[i], lastLog'[j])
            /\ \A i \in (Len(battles) + 1)..Len(battles') :
                   \E j \in 1..Len(lastLog') :
                       /\ player_team(lastLog'[j], Tracked) # 0
                       /\ StoredAs(battles'[i], lastLog'[j])]_vars

\* a batch of a new battle and then a record without battleTime came in
\* when one battle was stored: the table still has that one battle
C30_Witness ==
    /\ Len(lastLog) = 2
    /\ lastLog[1].battleTime = Time(13, "b")
    /\ player_team(lastLog[1], Tracked) # 0
    /\ lastLog[2].battleTime = <<>>
    /\ player_team(lastLog[2], Tracked) # 0
    /\ Len(battles) = 1
    /\ battles[1].battle_time = Time(13, "a")

\* the fingerprints of a member's stored rows, in the order stored
FingerprintsOf(table, player_tag) ==
    LET ids == Ascending(RowsOf(table, player_tag))
    IN [k \in 1..Len(ids) |-> table[ids[k]].deck_cards]

\* the fingerprints after one observation of the deck
FingerprintsAfter(fingerprints, deck) ==
    IF fingerprints # <<>> /\ fingerprints[Len(fingerprints)] = deck
    THEN fingerprints
    ELSE Append(fingerprints, deck)

\* after the second pass the battles table is that of one pass
RetryKeepsBattles ==
    (run.at = "done" /\ run.pass = 2) =>
        battles = save_battles_commit(run.start.battles, Tracked, run.log)

\* after the second pass every member has the fingerprints of one pass
RetryKeepsFingerprints ==
    (run.at = "done" /\ run.pass = 2) =>
        \A t \in Tags :
            FingerprintsOf(clan_member_decks, t)
                = IF t = run.player_data.tag
                  THEN FingerprintsAfter(FingerprintsOf(run.start.decks, t),
                                         format_deck(run.player_data.currentDeck))
                  ELSE FingerprintsOf(run.start.decks, t)

\* C22: a cycle cut off after some of its store operations and run again
\* with the same fetched data leaves the battles table of one uninterrupted
\* cycle, and for every member the deck fingerprints of one uninterrupted
\* cycle.
C22_RetryEqualsSingleCycle == RetryKeepsBattles /\ RetryKeepsFingerprints

\* C21: no query of the report generators changes a table: over every step
\* of get_player_stats, get_deck_performance, get_daily_battle_stats,
\* get_clan_rankings_data, get_player_clan_progression,
\* get_clan_deck_analytics, get_member_deck_history and get_member_info the
\* four tables are the same before and after.
C21_ReadsChangeNoTable ==
    [][/\ battles' = battles
       /\ clan_rankings_history' = clan_rankings_history
       /\ clan_member_decks' = clan_member_decks
       /\ clan_members' = clan_members]_vars

\* queries of both generators have run on a store with rows in all tables
C21_Witness ==
    /\ report.op = "get_clan_rankings_data"
    /\ history.player_tag # NULL
    /\ daily # NoDaily
    /\ Len(battles) = 3
    /\ Len(clan_rankings_history) = 3
    /\ Len(clan_member_decks) = 3
    /\ clan_members # <<>>

====
